---- MODULE Spec2Model ----
(***************************************************************************)
(* Model of script.py: the coordinator (main, process_certificate_batch)   *)
(* and the per-identifier coroutines (fetch_certificate_data,              *)
(* save_debug_snapshot) running on one asyncio event loop.  One action is  *)
(* the code between two await points.  Every awaited call of the browser   *)
(* library can raise; where the exception goes is decided by the try       *)
(* blocks of the source.                                                   *)
(***************************************************************************)
EXTENDS Integers, Sequences, FiniteSets, TLC

\* ---------------------------------------------------------------- bounds
MaxIds == 3
MaxRetries == 2

\* ---------------------------------------------------------------- inputs
IdSet == {"A1", "A2"}
BLANK == ""
ConcurrencyValues == {-1, 0, 1, 2}
RetryValues == -1 .. MaxRetries
\* <<args.delay, args.rate_limit>>: the two settings are used by unrelated code
\* (line 52, lines 109-110), so they are varied together
Timings == {<<0, 0>>, <<1, 2>>, <<1, -1>>}

RECURSIVE SeqsUpTo(_, _)
SeqsUpTo(S, n) ==
  IF n = 0 THEN {<<>>}
  ELSE LET shorter == SeqsUpTo(S, n - 1)
       IN  shorter \cup {Append(s, x) : s \in {t \in shorter : Len(t) = n - 1}, x \in S}

\* The lines of the input file: identifiers, possibly with one blank line.
\* Identifiers are opaque tokens, so the first one is always called "A1".
InputFiles ==
  LET idSeqs == {s \in SeqsUpTo(IdSet, MaxIds) : s # <<>> => s[1] = "A1"}
  IN  idSeqs \cup {<<BLANK>>} \cup {<<BLANK>> \o s : s \in {t \in idSeqs : Len(t) = 1}}

VARIABLES
  pc,               \* position of main / process_certificate_batch
  exit_code,        \* -1 while the process runs, then its exit status
  input_state,      \* "ok", "missing" (os.path.exists false), "unreadable" (open raises)
  input_lines,      \* the lines of the input file
  certificate_ids,  \* main: the identifiers loaded from the file
  context,          \* main: the browser context of line 159 ("" before it exists)
  concurrency,      \* args.concurrency
  retry_count,      \* args.retries
  retry_delay,      \* args.delay
  rate_limit,       \* args.rate_limit
  i,                \* main: loop variable of range(0, len(certificate_ids), concurrency)
  index,            \* process_certificate_batch: number of coroutines appended to tasks
  all_results,      \* main: the collected Results
  report,           \* the rows written to the output file (without the header)
  report_written,   \* the output file has been written
  tasks,            \* one record per identifier position: the coroutine's state
  done_order,       \* positions of the current window in order of completion
  pace_sleeps,      \* durations of the pacing sleeps of the current window
  elapsed,          \* time the coordinator has slept since the window's dispatch began
  files             \* identifiers whose debug snapshot file has been written

vars == <<pc, exit_code, input_state, input_lines, certificate_ids, context, concurrency,
          retry_count, retry_delay, rate_limit, i, index, all_results, report,
          report_written, tasks, done_order, pace_sleeps, elapsed, files>>

config == <<input_state, input_lines, concurrency, retry_count, retry_delay, rate_limit>>

\* ---------------------------------------------------------------- helpers
Min(a, b) == IF a < b THEN a ELSE b

\* line 146: [line.strip() for line in file if line.strip()]
NonBlank(line) == line # BLANK
load_ids(lines) == SelectSeq(lines, NonBlank)

\* The fields extracted from the page of an identifier (lines 60-66).
card_name(id) == "name-" \o id
grade(id) == "grade-" \o id

\* (mutant) the two extracted fields are returned in the wrong order
SuccessResult_swapped(id) == <<id, grade(id), card_name(id)>>

SuccessResult(id) == <<id, card_name(id), grade(id)>>

\* line 80
ErrorResult(id) == <<id, "Error", "Error">>

NoTask == [pc |-> "none", attempt |-> 0, page |-> 0, waits |-> <<>>, snaps |-> 0,
           raised |-> "", result |-> <<>>, started |-> -1, context |-> ""]

\* The coroutine ended with an exception raised by this call; its frame is gone,
\* a page it had open stays open.
Raised(by, open) == [NoTask EXCEPT !.pc = "raised", !.raised = by, !.page = open]

N == Len(certificate_ids)
\* (mutant) the slice takes one identifier more than the window size
BatchHi_one_more == Min(i + concurrency + 1, N)

\* line 165: batch = certificate_ids[i:i + args.concurrency], as positions
BatchHi == Min(i + concurrency, N)

Batch == (i + 1) .. BatchHi

BatchLen == IF BatchHi > i THEN BatchHi - i ELSE 0

Running == exit_code = -1

\* ---------------------------------------------------------------- Init
Init ==
  /\ pc = "start"
  /\ exit_code = -1
  /\ input_state \in {"ok", "missing", "unreadable"}
  /\ input_lines \in InputFiles
  /\ (input_state # "ok" => input_lines = <<>>)
  /\ certificate_ids = <<>>
  /\ context = ""
  /\ concurrency \in ConcurrencyValues
  /\ retry_count \in RetryValues
  /\ \E t \in Timings : retry_delay = t[1] /\ rate_limit = t[2]
  /\ i = 0
  /\ index = 0
  /\ all_results = <<>>
  /\ report = <<>>
  /\ report_written = FALSE
  /\ tasks = <<>>
  /\ done_order = <<>>
  /\ pace_sleeps = <<>>
  /\ elapsed = 0
  /\ files = {}

\* sys.exit(status), or the exit status set by the __main__ block
Exit(status, where) ==
  /\ pc' = where
  /\ exit_code' = status

\* asyncio.run cancels every task that is still pending when main ends
CancelPending(ts) ==
  [p \in DOMAIN ts |->
     IF ts[p].pc \in {"none", "collected", "returned", "raised"} THEN ts[p]
     ELSE [NoTask EXCEPT !.pc = "cancelled", !.page = ts[p].page]]

\* ---------------------------------------------------------------- main
\* lines 140-155: the input file is checked, read and filtered
read_input_missing ==
  /\ Running /\ pc = "start"
  /\ input_state = "missing"
  /\ Exit(1, "exited")
  /\ UNCHANGED <<config, context, certificate_ids, i, index, all_results, report,
                 report_written, tasks, done_order, pace_sleeps, elapsed, files>>

read_input_unreadable ==
  /\ Running /\ pc = "start"
  /\ input_state = "unreadable"
  /\ Exit(1, "exited")
  /\ UNCHANGED <<config, context, certificate_ids, i, index, all_results, report,
                 report_written, tasks, done_order, pace_sleeps, elapsed, files>>

\* (mutant) an empty identifier list is not rejected
read_input_empty_proceeds ==
  /\ Running /\ pc = "start"
  /\ input_state = "ok"
  /\ load_ids(input_lines) = <<>>
  /\ pc' = "launch"
  /\ UNCHANGED <<exit_code, config, context, certificate_ids, i, index, all_results,
                 report, report_written, tasks, done_order, pace_sleeps, elapsed, files>>

read_input_empty ==
  /\ Running /\ pc = "start"
  /\ input_state = "ok"
  /\ load_ids(input_lines) = <<>>
  /\ Exit(1, "exited")
  /\ UNCHANGED <<config, context, certificate_ids, i, index, all_results, report,
                 report_written, tasks, done_order, pace_sleeps, elapsed, files>>

read_input ==
  /\ Running /\ pc = "start"
  /\ input_state = "ok"
  /\ load_ids(input_lines) # <<>>
  /\ certificate_ids' = load_ids(input_lines)
  /\ tasks' = [p \in 1 .. Len(load_ids(input_lines)) |-> NoTask]
  /\ pc' = "launch"
  /\ UNCHANGED <<exit_code, config, context, i, index, all_results, report,
                 report_written, done_order, pace_sleeps, elapsed, files>>

\* lines 157-161: the browser and its single context are created
launch_browser ==
  /\ Running /\ pc = "launch"
  /\ pc' = "loop"
  /\ context' = "context-1"
  /\ all_results' = <<>>
  /\ UNCHANGED <<exit_code, config, certificate_ids, i, index, report,
                 report_written, tasks, done_order, pace_sleeps, elapsed, files>>

\* lines 158-159 raise: caught at line 195, exit status 1
launch_browser_fails ==
  /\ Running /\ pc = "launch"
  /\ Exit(1, "fatal")
  /\ UNCHANGED <<config, context, certificate_ids, i, index, all_results, report,
                 report_written, tasks, done_order, pace_sleeps, elapsed, files>>

\* line 164: range(0, len(certificate_ids), step) yields offset k
range_has(k) == IF concurrency > 0 THEN k < N ELSE FALSE

\* line 164 with step 0: range() raises ValueError, caught at line 195
loop_zero_step ==
  /\ Running /\ pc = "loop"
  /\ concurrency = 0
  /\ Exit(1, "fatal")
  /\ UNCHANGED <<config, context, certificate_ids, i, index, all_results, report,
                 report_written, tasks, done_order, pace_sleeps, elapsed, files>>

\* lines 164-166: the next window is sliced and handed to process_certificate_batch
loop_next ==
  /\ Running /\ pc = "loop"
  /\ concurrency # 0
  /\ range_has(i)
  /\ pc' = "dispatch"
  /\ index' = 0
  /\ done_order' = <<>>
  /\ pace_sleeps' = <<>>
  /\ elapsed' = 0
  /\ UNCHANGED <<exit_code, config, context, certificate_ids, i, all_results, report,
                 report_written, tasks, files>>

\* line 164 exhausted, line 177: the browser is closed
loop_end ==
  /\ Running /\ pc = "loop"
  /\ concurrency # 0
  /\ ~range_has(i)
  /\ pc' = "write"
  /\ UNCHANGED <<exit_code, config, context, certificate_ids, i, index, all_results, report,
                 report_written, tasks, done_order, pace_sleeps, elapsed, files>>

\* line 177 raises: caught at line 195
close_browser_fails ==
  /\ Running /\ pc = "loop"
  /\ concurrency # 0
  /\ ~range_has(i)
  /\ Exit(1, "fatal")
  /\ UNCHANGED <<config, context, certificate_ids, i, index, all_results, report,
                 report_written, tasks, done_order, pace_sleeps, elapsed, files>>

\* lines 179-184: the report is written
write_report ==
  /\ Running /\ pc = "write"
  /\ report' = all_results
  /\ report_written' = TRUE
  /\ Exit(0, "done")
  /\ UNCHANGED <<config, context, certificate_ids, i, index, all_results,
                 tasks, done_order, pace_sleeps, elapsed, files>>

\* lines 185-187: opening the output file raises
write_report_fails ==
  /\ Running /\ pc = "write"
  /\ Exit(1, "write_failed")
  /\ UNCHANGED <<config, context, certificate_ids, i, index, all_results, report,
                 report_written, tasks, done_order, pace_sleeps, elapsed, files>>

\* (mutant) the interrupt handler saves what was collected so far
KeyboardInterrupt_saves_partial ==
  /\ Running /\ pc \in {"launch", "loop", "dispatch", "gather"}
  /\ Exit(0, "interrupted")
  /\ tasks' = CancelPending(tasks)
  /\ report' = all_results
  /\ report_written' = TRUE
  /\ UNCHANGED <<config, context, certificate_ids, i, index, all_results,
                 done_order, pace_sleeps, elapsed, files>>

\* lines 192-194: a KeyboardInterrupt ends asyncio.run at an await of main
KeyboardInterrupt ==
  /\ Running /\ pc \in {"launch", "loop", "dispatch", "gather"}
  /\ Exit(0, "interrupted")
  /\ tasks' = CancelPending(tasks)
  /\ UNCHANGED <<config, context, certificate_ids, i, index, all_results, report,
                 report_written, done_order, pace_sleeps, elapsed, files>>

\* ---------------------------------------------------------------- process_certificate_batch
\* (mutant) the sleep is made whatever the rate limit
needs_pacing_any_rate(k) == k > 0

\* line 109: the rate limiter sleeps before the item at this window index
needs_pacing(k) == k > 0 /\ rate_limit > 0

\* (mutant) the range stops one attempt early
in_attempt_range_short(a) == a >= 1 /\ a < retry_count + 1

\* line 47: range(1, retry_count + 2) yields this attempt number
in_attempt_range(a) == a >= 1 /\ a < retry_count + 2

\* (mutant) the delay scales with the number of the attempt that failed
backoff_delay_previous(a) == retry_delay * (a - 1)

\* line 52: the argument of asyncio.sleep before this attempt
backoff_delay(a) == retry_delay * a

\* lines 108-117, one iteration: the pacing sleep, then the coroutine object of
\* fetch_certificate_data is created and appended; it does not run yet
dispatch ==
  /\ Running /\ pc = "dispatch"
  /\ index < BatchLen
  /\ IF needs_pacing(index)
       THEN /\ elapsed' = elapsed + rate_limit
            /\ pace_sleeps' = Append(pace_sleeps, rate_limit)
       ELSE UNCHANGED <<elapsed, pace_sleeps>>
  /\ tasks' = [tasks EXCEPT ![i + index + 1].pc = "created",
                            ![i + index + 1].context = context]
  /\ index' = index + 1
  /\ UNCHANGED <<pc, exit_code, config, context, certificate_ids, i, all_results, report,
                 report_written, done_order, files>>

\* The first step of a coroutine: line 47 enters attempt 1, or, with an empty
\* range, line 79 calls save_debug_snapshot.
start_task(t, time) ==
  IF in_attempt_range(1)
    THEN [t EXCEPT !.pc = "new_page", !.attempt = 1, !.started = time]
    ELSE [t EXCEPT !.pc = "snap_new_page", !.snaps = 1, !.started = time]

\* line 118: asyncio.gather wraps every coroutine of the window in a task;
\* all of them start running when the coordinator suspends
gather_start ==
  /\ Running /\ pc = "dispatch"
  /\ index = BatchLen
  /\ tasks' = [p \in DOMAIN tasks |->
                 IF p \in Batch THEN start_task(tasks[p], elapsed) ELSE tasks[p]]
  /\ pc' = "gather"
  /\ UNCHANGED <<exit_code, config, context, certificate_ids, i, index, all_results, report,
                 report_written, done_order, pace_sleeps, elapsed, files>>

\* (mutant) the results are taken in order of completion
gather_results_as_completed == [k \in 1 .. BatchLen |-> tasks[done_order[k]].result]

\* line 118: gather returns the results in the order of its arguments
gather_results == [k \in 1 .. BatchLen |-> tasks[i + k].result]

\* lines 118, 174-175: every task of the window has returned
gather_return ==
  /\ Running /\ pc = "gather"
  /\ \A p \in Batch : tasks[p].pc = "returned"
  /\ all_results' = all_results \o gather_results
  /\ i' = i + concurrency
  /\ tasks' = [p \in DOMAIN tasks |->
                 IF p \in Batch THEN [NoTask EXCEPT !.pc = "collected"] ELSE tasks[p]]
  /\ pc' = "loop"
  /\ UNCHANGED <<exit_code, config, context, certificate_ids, index, report,
                 report_written, done_order, pace_sleeps, elapsed, files>>

\* line 118: a task raised; gather re-raises it in main, caught at line 195
gather_raises ==
  /\ Running /\ pc = "gather"
  /\ \E p \in Batch : tasks[p].pc = "raised"
  /\ Exit(1, "fatal")
  /\ tasks' = CancelPending(tasks)
  /\ UNCHANGED <<config, context, certificate_ids, i, index, all_results, report,
                 report_written, done_order, pace_sleeps, elapsed, files>>

\* ---------------------------------------------------------------- fetch_certificate_data
\* The task at position p is the one that runs next, and is at this place.
TaskAt(p, where) ==
  /\ Running /\ pc = "gather"
  /\ p \in Batch
  /\ tasks[p].pc = where

main_unchanged ==
  UNCHANGED <<pc, exit_code, config, context, certificate_ids, i, index, all_results, report,
              report_written, pace_sleeps, elapsed>>

\* lines 48, 33-36: the page of the attempt is created, outside the try block
create_stealth_page(p) ==
  /\ TaskAt(p, "new_page")
  /\ tasks' = [tasks EXCEPT ![p].page = 1,
                            ![p].pc = IF tasks[p].attempt > 1 THEN "backoff" ELSE "goto"]
  /\ main_unchanged /\ UNCHANGED <<done_order, files>>

\* line 34 raises at line 48: no handler in fetch_certificate_data
new_page_raises(p) ==
  /\ TaskAt(p, "new_page")
  /\ tasks' = [tasks EXCEPT ![p] = Raised("new_page", 0)]
  /\ main_unchanged /\ UNCHANGED <<done_order, files>>

\* line 35 raises at line 48: the page exists and nothing closes it
stealth_raises(p) ==
  /\ TaskAt(p, "new_page")
  /\ tasks' = [tasks EXCEPT ![p] = Raised("stealth", 1)]
  /\ main_unchanged /\ UNCHANGED <<done_order, files>>

\* lines 50-52: the backoff sleep of an attempt after the first
backoff(p) ==
  /\ TaskAt(p, "backoff")
  /\ tasks' = [tasks EXCEPT ![p].waits = Append(@, backoff_delay(tasks[p].attempt)),
                            ![p].pc = "goto"]
  /\ main_unchanged /\ UNCHANGED <<done_order, files>>

\* lines 55-68: navigation, settling, selector wait and extraction succeed
fetch_ok(p) ==
  /\ TaskAt(p, "goto")
  /\ tasks' = [tasks EXCEPT ![p].pc = "close"]
  /\ main_unchanged /\ UNCHANGED <<done_order, files>>

\* line 55 or 58 raises PlaywrightTimeoutError: caught at line 72
fetch_timeout(p) ==
  /\ TaskAt(p, "goto")
  /\ tasks' = [tasks EXCEPT ![p].pc = "finally"]
  /\ main_unchanged /\ UNCHANGED <<done_order, files>>

\* lines 55-66 raise any other exception (navigation, extraction): caught at line 74
fetch_error(p) ==
  /\ TaskAt(p, "goto")
  /\ tasks' = [tasks EXCEPT ![p].pc = "finally"]
  /\ main_unchanged /\ UNCHANGED <<done_order, files>>

\* (mutant) the return statement is missing: the loop goes on after a success
close_and_continue(p) ==
  /\ TaskAt(p, "close")
  /\ tasks' = [tasks EXCEPT ![p].result = SuccessResult(certificate_ids[p]),
                            ![p].pc = "finally"]
  /\ main_unchanged /\ UNCHANGED <<done_order, files>>

\* lines 69-70: the page is closed and the return value is set
close_and_return(p) ==
  /\ TaskAt(p, "close")
  /\ tasks' = [tasks EXCEPT ![p].page = 0,
                            ![p].result = SuccessResult(certificate_ids[p]),
                            ![p].pc = "finally_return"]
  /\ main_unchanged /\ UNCHANGED <<done_order, files>>

\* line 69 raises inside the try block: caught at line 74, the attempt has failed
close_raises(p) ==
  /\ TaskAt(p, "close")
  /\ tasks' = [tasks EXCEPT ![p].pc = "finally"]
  /\ main_unchanged /\ UNCHANGED <<done_order, files>>

\* line 77 on the way out of line 70: the page is closed already, and closing a
\* closed page does nothing; the task returns its Result
finally_return(p) ==
  /\ TaskAt(p, "finally_return")
  /\ tasks' = [tasks EXCEPT ![p].pc = "returned"]
  /\ done_order' = Append(done_order, p)
  /\ main_unchanged /\ UNCHANGED <<files>>

\* (mutant) the range exhausted, the sentinel is returned without a snapshot
finally_close_no_snapshot(p) ==
  /\ TaskAt(p, "finally")
  /\ IF in_attempt_range(tasks[p].attempt + 1)
       THEN /\ tasks' = [tasks EXCEPT ![p].page = 0, ![p].attempt = @ + 1,
                                      ![p].pc = "new_page"]
            /\ UNCHANGED done_order
       ELSE /\ tasks' = [tasks EXCEPT ![p].page = 0,
                                      ![p].result = ErrorResult(certificate_ids[p]),
                                      ![p].pc = "returned"]
            /\ done_order' = Append(done_order, p)
  /\ main_unchanged /\ UNCHANGED <<files>>

\* lines 77, 47, 79: the page of a failed attempt is closed; the loop goes on
\* with the next attempt or, the range exhausted, save_debug_snapshot is called
finally_close(p) ==
  /\ TaskAt(p, "finally")
  /\ tasks' = [tasks EXCEPT
                 ![p] = IF in_attempt_range(@.attempt + 1)
                          THEN [@ EXCEPT !.page = 0, !.attempt = @ + 1, !.pc = "new_page"]
                          ELSE [@ EXCEPT !.page = 0, !.snaps = @ + 1,
                                         !.pc = "snap_new_page"]]
  /\ main_unchanged /\ UNCHANGED <<done_order, files>>

\* line 77 raises: the exception leaves fetch_certificate_data
finally_close_raises(p) ==
  /\ TaskAt(p, "finally")
  /\ tasks' = [tasks EXCEPT ![p] = Raised("page_close", 1)]
  /\ main_unchanged /\ UNCHANGED <<done_order, files>>

\* ---------------------------------------------------------------- save_debug_snapshot
\* lines 83-86: the page is created and the debug directory exists
snapshot_page(p) ==
  /\ TaskAt(p, "snap_new_page")
  /\ tasks' = [tasks EXCEPT ![p].page = 1, ![p].pc = "snap_goto"]
  /\ main_unchanged /\ UNCHANGED <<done_order, files>>

\* line 83 raises (line 34): outside the try block of save_debug_snapshot
snapshot_new_page_raises(p) ==
  /\ TaskAt(p, "snap_new_page")
  /\ tasks' = [tasks EXCEPT ![p] = Raised("snap_new_page", 0)]
  /\ main_unchanged /\ UNCHANGED <<done_order, files>>

\* line 83 raises (line 35): the page exists and nothing closes it
snapshot_stealth_raises(p) ==
  /\ TaskAt(p, "snap_new_page")
  /\ tasks' = [tasks EXCEPT ![p] = Raised("snap_stealth", 1)]
  /\ main_unchanged /\ UNCHANGED <<done_order, files>>

\* line 85 raises: outside the try block, the page stays open
makedirs_raises(p) ==
  /\ TaskAt(p, "snap_new_page")
  /\ tasks' = [tasks EXCEPT ![p] = Raised("makedirs", 1)]
  /\ main_unchanged /\ UNCHANGED <<done_order, files>>

\* lines 88-93: the document is fetched and written to <id>.html
snapshot_saved(p) ==
  /\ TaskAt(p, "snap_goto")
  /\ tasks' = [tasks EXCEPT ![p].pc = "snap_finally"]
  /\ files' = files \cup {certificate_ids[p]}
  /\ main_unchanged /\ UNCHANGED <<done_order>>

\* lines 88-92 raise (navigation, serialization, file write): caught at line 94
snapshot_fails(p) ==
  /\ TaskAt(p, "snap_goto")
  /\ tasks' = [tasks EXCEPT ![p].pc = "snap_finally"]
  /\ main_unchanged /\ UNCHANGED <<done_order, files>>

\* lines 97, 80: the snapshot page is closed and the sentinel Result returned
snapshot_close_and_return(p) ==
  /\ TaskAt(p, "snap_finally")
  /\ tasks' = [tasks EXCEPT ![p].page = 0,
                            ![p].result = ErrorResult(certificate_ids[p]),
                            ![p].pc = "returned"]
  /\ done_order' = Append(done_order, p)
  /\ main_unchanged /\ UNCHANGED <<files>>

\* line 97 raises: the exception leaves save_debug_snapshot and line 79
snapshot_close_raises(p) ==
  /\ TaskAt(p, "snap_finally")
  /\ tasks' = [tasks EXCEPT ![p] = Raised("snap_page_close", 1)]
  /\ main_unchanged /\ UNCHANGED <<done_order, files>>

\* ---------------------------------------------------------------- specification
TaskStep(p) ==
  \/ create_stealth_page(p)
  \/ new_page_raises(p)
  \/ stealth_raises(p)
  \/ backoff(p)
  \/ fetch_ok(p)
  \/ fetch_timeout(p)
  \/ fetch_error(p)
  \/ close_and_return(p)
  \/ close_raises(p)
  \/ finally_return(p)
  \/ finally_close(p)
  \/ finally_close_raises(p)
  \/ snapshot_page(p)
  \/ snapshot_new_page_raises(p)
  \/ snapshot_stealth_raises(p)
  \/ makedirs_raises(p)
  \/ snapshot_saved(p)
  \/ snapshot_fails(p)
  \/ snapshot_close_and_return(p)
  \/ snapshot_close_raises(p)

Next ==
  \/ read_input_missing
  \/ read_input_unreadable
  \/ read_input_empty
  \/ read_input
  \/ launch_browser
  \/ launch_browser_fails
  \/ loop_zero_step
  \/ loop_next
  \/ loop_end
  \/ close_browser_fails
  \/ write_report
  \/ write_report_fails
  \/ KeyboardInterrupt
  \/ dispatch
  \/ gather_start
  \/ gather_return
  \/ gather_raises
  \/ \E p \in DOMAIN tasks : TaskStep(p)

Spec == Init /\ [][Next]_vars

\* ---------------------------------------------------------------- properties
Ids(results) == [k \in 1 .. Len(results) |-> results[k][1]]

\* The run went through every window and reached the report step.
RunComplete == pc \in {"write", "done", "write_failed"}

\* The task is between its first step and its return or exception.
InFlight(t) ==
  t.pc \in {"new_page", "backoff", "goto", "close", "finally_return", "finally",
            "snap_new_page", "snap_goto", "snap_finally"}

\* The window of a position, for a positive window size.
WindowOf(p) == (p - 1) \div concurrency

\* C1: for a non-empty identifier list and a window size of at least 1, after a
\* complete run the collected Results are one per input identifier, the k-th
\* Result carrying the k-th identifier, whatever the order of completion.
C1_OneResultPerIdInOrder ==
  (concurrency >= 1 /\ RunComplete) =>
     /\ Len(all_results) = Len(certificate_ids)
     /\ Ids(all_results) = certificate_ids

\* C1 witness: a complete run of two distinct identifiers in one window whose
\* second task finished first.
C1_Witness ==
  /\ pc = "done" /\ concurrency = 2
  /\ certificate_ids = <<"A1", "A2">>
  /\ done_order = <<2, 1>>
  /\ Ids(all_results) = <<"A1", "A2">>

C3_AttemptCount ==
  retry_count >= 0 =>
    \A p \in DOMAIN tasks :
      LET t == tasks[p]
      IN  /\ t.attempt <= retry_count + 1
          /\ (InFlight(t) \/ t.pc = "returned" => t.attempt >= 1)
          /\ (t.pc \in {"snap_new_page", "snap_goto", "snap_finally"}
                => t.attempt = retry_count + 1)
          /\ (t.pc = "returned" /\ t.result[2] = "Error" => t.attempt = retry_count + 1)

\* C3 witness: with two retries a task has returned the sentinel after its
\* third failed attempt.
C3_Witness ==
  /\ retry_count = 2
  /\ \E p \in DOMAIN tasks :
       /\ tasks[p].pc = "returned" /\ tasks[p].result = ErrorResult(certificate_ids[p])
       /\ tasks[p].attempt = 3

\* C4: with a window size C >= 1, never are more than C identifiers being
\* processed, and a task of a later window exists only once every task of
\* every earlier window has returned its Result and been collected.
C4_BoundedWindows ==
  concurrency >= 1 =>
    /\ Cardinality({p \in DOMAIN tasks : InFlight(tasks[p])}) <= concurrency
    /\ \A p, q \in DOMAIN tasks :
         (WindowOf(p) < WindowOf(q) /\ tasks[q].pc # "none") => tasks[p].pc = "collected"

\* A full window: as many tasks in flight as the window size allows.
C4_FullWindow ==
  /\ concurrency = 2 /\ Len(certificate_ids) = 3
  /\ InFlight(tasks[1]) /\ InFlight(tasks[2])
  /\ tasks[3].pc = "none"

\* C4 witness: the task of the second window is in flight, after both tasks of
\* the first window returned and were collected.
C4_Witness ==
  /\ concurrency = 2 /\ Len(certificate_ids) = 3
  /\ tasks[1].pc = "collected" /\ tasks[2].pc = "collected" /\ InFlight(tasks[3])

\* C5 (as claimed): with rate_limit = R > 0, the task of the item at window
\* index k > 0 starts at least R after the task of the item at index k - 1.
C5_DispatchSpacing ==
  rate_limit > 0 =>
    \A p \in Batch :
      (p - 1 \in Batch /\ tasks[p].started >= 0 /\ tasks[p - 1].started >= 0)
         => tasks[p].started - tasks[p - 1].started >= rate_limit

\* C6 (as claimed): no failure of a step of an attempt (page acquisition,
\* navigation, content wait, extraction, page release) leaves the task as an
\* exception, and none ends the run.
C6_NoFailureEscapesAttempt ==
  \A p \in DOMAIN tasks :
    tasks[p].raised \notin {"new_page", "stealth", "page_close"}

\* C7 (as claimed): no failure of a step of the snapshot (page acquisition,
\* debug directory, navigation, serialization, file write, page release) leaves
\* save_debug_snapshot as an exception.
C7_SnapshotNeverRaises ==
  \A p \in DOMAIN tasks :
    tasks[p].raised \notin {"snap_new_page", "snap_stealth", "makedirs", "snap_page_close"}

\* C8: the backoff wait made before attempt k >= 2 is retry_delay * k; one
\* wait precedes each attempt after the first, none precedes attempt 1 and
\* none follows the last failed attempt; for retry_delay > 0 the waits of a
\* task increase strictly.
C8_BackoffBeforeEachRetry ==
  \A p \in DOMAIN tasks :
    LET t == tasks[p]
        k == t.attempt
        made == Len(t.waits)
    IN  /\ (t.pc \in {"new_page", "backoff"} => made = (IF k >= 2 THEN k - 2 ELSE 0))
        /\ (t.pc \in {"goto", "close", "finally", "finally_return", "snap_new_page",
                      "snap_goto", "snap_finally", "returned"}
              => made = (IF k >= 2 THEN k - 1 ELSE 0))
        /\ (t.pc \in {"goto", "close", "finally", "finally_return"} /\ k >= 2
              => t.waits[made] = retry_delay * k)
        /\ (retry_delay > 0 =>
              \A a, b \in 1 .. made : a < b => t.waits[a] < t.waits[b])

\* C8 witness: a task is in its third attempt after two increasing waits.
C8_Witness ==
  \E p \in DOMAIN tasks :
    /\ tasks[p].pc = "goto" /\ tasks[p].attempt = 3
    /\ retry_delay = 1
    /\ Len(tasks[p].waits) = 2 /\ tasks[p].waits[2] = 3

\* C9 (as claimed): the wait before the j-th retry is j * retry_delay, the
\* first being retry_delay.
C9_WaitsStartAtBaseDelay ==
  \A p \in DOMAIN tasks :
    \A j \in 1 .. Len(tasks[p].waits) : tasks[p].waits[j] = j * retry_delay

\* C9 (amended): the wait before the j-th retry is (j + 1) * retry_delay, the
\* first being 2 * retry_delay.
C9_WaitsStartAtTwiceBaseDelay ==
  \A p \in DOMAIN tasks :
    \A j \in 1 .. Len(tasks[p].waits) : tasks[p].waits[j] = (j + 1) * retry_delay

\* C9 witness: a task has made its first two backoff waits, of 2 and 3 times
\* a retry_delay of 1.
C9_Witness ==
  \E p \in DOMAIN tasks :
    /\ retry_delay = 1
    /\ tasks[p].waits = <<2, 3>>

\* C10 (as claimed): a report written by a run that exits with status 0 has
\* one row per input identifier, in input order, for every integer window size.
C10_ReportHasAllRows ==
  (report_written /\ exit_code = 0) =>
     /\ Len(report) = Len(certificate_ids)
     /\ Ids(report) = certificate_ids

\* C11: the Result of an identifier is decided by its own attempts alone: it
\* carries the name and grade extracted for that identifier when one of its at
\* most retry_count + 1 attempts succeeded, and the sentinel pair when every
\* attempt of the range failed, whatever the other tasks did; the collected
\* Results carry the same values, position by position.
C11_ResultFromOwnAttempts ==
  /\ \A p \in DOMAIN tasks :
       LET t == tasks[p]
           id == certificate_ids[p]
       IN  t.pc = "returned" =>
             \/ /\ t.result = <<id, "name-" \o id, "grade-" \o id>>
                /\ t.attempt >= 1 /\ t.attempt <= retry_count + 1
                /\ t.snaps = 0
             \/ /\ t.result = <<id, "Error", "Error">>
                /\ t.attempt >= retry_count + 1
                /\ t.snaps = 1
  /\ \A k \in 1 .. Len(all_results) :
       LET id == certificate_ids[k]
       IN  all_results[k] \in {<<id, "name-" \o id, "grade-" \o id>>,
                               <<id, "Error", "Error">>}

\* C11 witness: the scenario of three identifiers in windows of two with one
\* retry, the second failing every attempt and the others succeeding; one
\* snapshot file, of the second identifier, was written.
C11_Witness ==
  /\ pc = "done" /\ concurrency = 2 /\ retry_count = 1
  /\ certificate_ids = <<"A1", "A2", "A1">>
  /\ report = <<SuccessResult("A1"), ErrorResult("A2"), SuccessResult("A1")>>
  /\ files = {"A2"}

\* C12: when the input file is missing, unreadable or holds no non-blank line,
\* the process is at its start or has exited with status 1; no browser, task,
\* page, snapshot or report exists.
C12_BadInputExitsBeforeWork ==
  (input_state # "ok" \/ load_ids(input_lines) = <<>>) =>
     /\ pc \in {"start", "exited"}
     /\ (pc = "exited" <=> exit_code = 1)
     /\ exit_code \in {-1, 1}
     /\ context = ""
     /\ tasks = <<>>
     /\ files = {}
     /\ ~report_written

\* C12 witness: a file holding only a blank line made the process exit with
\* status 1.
C12_Witness ==
  /\ input_state = "ok" /\ input_lines = <<BLANK>>
  /\ pc = "exited" /\ exit_code = 1

\* No window is pending or in progress: the loop's range is exhausted and no
\* task is left to run or to collect.
AllWindowsComplete ==
  /\ ~range_has(i)
  /\ \A p \in DOMAIN tasks : tasks[p].pc \in {"none", "collected"}

\* C13: the report is written only by the step that ends the run, after every
\* window completed, and holds everything collected; a run ended by an
\* interrupt before that has status 0, no report, and no task left running.
C13_ReportAllOrNothing ==
  /\ (report_written => pc = "done" /\ AllWindowsComplete /\ report = all_results)
  /\ (pc = "interrupted" =>
        /\ exit_code = 0
        /\ ~report_written /\ report = <<>>
        /\ \A p \in DOMAIN tasks : ~InFlight(tasks[p]) /\ tasks[p].pc # "created")

\* C13 witness: an interrupt ended the run in its second window; a Result of
\* the first window was collected and nothing was written.
C13_Witness ==
  /\ pc = "interrupted"
  /\ all_results # <<>>
  /\ \E p \in DOMAIN tasks : tasks[p].pc = "cancelled"
  /\ ~report_written

\* C14: with a rate limit of 0 or less the coordinator makes no pacing sleep:
\* no time passes between the dispatches of a window.
C14_NoPacingWithoutRateLimit ==
  rate_limit <= 0 => pace_sleeps = <<>> /\ elapsed = 0

\* C14 witness: a window of two tasks was dispatched under a negative rate
\* limit with no pacing sleep.
C14_Witness ==
  /\ rate_limit < 0
  /\ pc = "gather" /\ BatchLen = 2
  /\ pace_sleeps = <<>>

\* C15 (as claimed): the task of the item at window index 0 starts with no
\* pacing delay behind it, and while the coordinator is pacing a later item of
\* the window the tasks of the items dispatched before it are running.
C15_DispatchDoesNotBlock ==
  /\ \A p \in Batch :
       (p = i + 1 /\ tasks[p].started >= 0) => tasks[p].started = 0
  /\ (pc = "dispatch" /\ index >= 1 /\ index < BatchLen /\ needs_pacing(index)) =>
        \A p \in (i + 1) .. (i + index) : tasks[p].pc # "created"

Succeeded(t) == t.result # <<>> /\ t.result[2] # "Error"

\* C16: in every step, a task holding the Result of a successful attempt only
\* returns it (no attempt, wait or snapshot follows); save_debug_snapshot is
\* called only by the step that closes the page of the failed attempt number
\* retry_count + 1 (or, the range of attempts being empty, by the first step);
\* the sentinel is set only by the step that ends the snapshot, and is the
\* Result of that step whether or not the file was written; a snapshot file
\* is written only under the identifier of a task that is in its snapshot.
C16_WorkerEventOrder ==
  [][\A p \in DOMAIN tasks :
       LET t == tasks[p]
           u == tasks'[p]
           id == certificate_ids[p]
       IN  /\ Succeeded(t) =>
                /\ u.pc \in {"finally_return", "returned", "collected", "cancelled"}
                /\ (u.pc \in {"finally_return", "returned"} =>
                      u.attempt = t.attempt /\ u.waits = t.waits /\ u.snaps = 0
                      /\ u.result = t.result)
           /\ u.snaps > t.snaps =>
                \/ t.pc = "finally" /\ t.attempt = retry_count + 1 /\ u.pc = "snap_new_page"
                \/ t.pc = "created" /\ retry_count < 0 /\ u.pc = "snap_new_page"
           /\ (u.pc = "returned" /\ t.pc # "returned" /\ ~Succeeded(t)) =>
                /\ t.pc = "snap_finally" /\ t.snaps = 1
                /\ u.result = <<id, "Error", "Error">>
           /\ (t.pc = "snap_finally" /\ u.pc \notin {"snap_finally", "cancelled"}) =>
                \/ u.pc = "returned" /\ u.result = <<id, "Error", "Error">>
                \/ u.pc = "raised"
           /\ (t.pc = "snap_goto" /\ u.pc = "snap_finally" /\ files' # files) =>
                files' = files \cup {id}
    ]_vars

\* C16 witness: two tasks returned the sentinel, one after its snapshot file
\* was written, the other after its snapshot failed.
C16_Witness ==
  /\ pc = "gather"
  /\ certificate_ids = <<"A1", "A2">>
  /\ tasks[1].pc = "returned" /\ tasks[1].result = ErrorResult("A1")
  /\ tasks[2].pc = "returned" /\ tasks[2].result = ErrorResult("A2")
  /\ files = {"A1"}

\* C17 (as claimed): a task holds at most one page; it holds none when it is
\* about to create one, when it has its Result, and when it has ended by an
\* exception; the open pages never exceed the window size; none is open once
\* the run has reached the report step.
C17_PagesReleased ==
  /\ \A p \in DOMAIN tasks :
       /\ tasks[p].page <= 1
       /\ (tasks[p].pc \in {"none", "created", "new_page", "snap_new_page",
                            "finally_return", "returned", "collected", "raised"}
             => tasks[p].page = 0)
  /\ (concurrency >= 1 =>
        Cardinality({p \in DOMAIN tasks : tasks[p].page > 0}) <= concurrency)
  /\ (RunComplete => \A p \in DOMAIN tasks : tasks[p].page = 0)

\* The run ended with an exception of the browser launch or browser close
\* (lines 158-159, 177): no task had a part in it.
BrowserFailed ==
  pc = "fatal" /\ \A p \in DOMAIN tasks : tasks[p].pc \in {"none", "collected"}

\* C18 (as claimed, in the form a finite run refutes): with a window size of at
\* least 1 and retry_count >= 0, a run of a non-empty identifier list that has
\* ended without an interrupt and without a browser launch or close failure
\* has ended at the report step, with every task collected and a Result for
\* every identifier.
C18_RunEndsAtReportStep ==
  (/\ concurrency >= 1 /\ retry_count >= 0
   /\ ~Running /\ certificate_ids # <<>>
   /\ pc # "interrupted" /\ ~BrowserFailed)
    => /\ pc \in {"done", "write_failed"}
       /\ Len(all_results) = Len(certificate_ids)
       /\ \A p \in DOMAIN tasks : tasks[p].pc = "collected"

\* C19 (as claimed): no two tasks in flight at the same time use the same
\* browser context.
C19_IsolatedContexts ==
  \A p, q \in DOMAIN tasks :
    (p # q /\ InFlight(tasks[p]) /\ InFlight(tasks[q]))
       => tasks[p].context # tasks[q].context

\* line 86: the file of a snapshot
file_path(id) == "debug_snapshots/" \o id \o ".html"

\* The task is inside save_debug_snapshot.
InSnapshot(t) == t.pc \in {"snap_new_page", "snap_goto", "snap_finally"}

\* C20 (as claimed): no two snapshots in flight at the same time have the same
\* file as their target.
C20_OneSnapshotPerFile ==
  \A p, q \in DOMAIN tasks :
    (p # q /\ InSnapshot(tasks[p]) /\ InSnapshot(tasks[q]))
       => file_path(certificate_ids[p]) # file_path(certificate_ids[q])
====
